---- MODULE Spec2Model ----
(***************************************************************************)
(* Model of droyo/go.soap: the XML tree builder (element.go) and the       *)
(* multiRef reference flattener (soap.go).                                 *)
(*                                                                         *)
(* A string is a sequence of units [c, lvl]: the unit stands for the       *)
(* character c escaped lvl times (lvl = 0: the character itself, lvl = 1:  *)
(* "&lt;", lvl = 2: "&amp;lt;", ...).  An escaped character is always      *)
(* written as one unit, never spelled out in characters, so a bare "&" is  *)
(* an ampersand that starts no entity.  A name is a sequence of            *)
(* characters.                                                             *)
(*                                                                         *)
(* A byte buffer is a sequence of lexemes (start tag, empty tag, end tag,  *)
(* text), each standing for the bytes the template writes for it.  The     *)
(* decoder reads the bytes: Render gives them and rawToken reads them the  *)
(* way encoding/xml does.  For a buffer in which every tag reads back as   *)
(* the tag it was written from, the tokens are taken from the lexemes      *)
(* directly (PlainTokens); the two agree on such buffers (PlainAgrees).    *)
(*                                                                         *)
(* Only({e : x \in {v}}) is e with x standing for the value v, which is    *)
(* computed once however often e uses it.                                  *)
(***************************************************************************)
EXTENDS Naturals, Sequences, FiniteSets, TLC

VARIABLES data, pc, mref, stack, out, err, calls

vars == <<data, pc, mref, stack, out, err, calls>>

(***************************************************************************)
(* Strings                                                                 *)
(***************************************************************************)
Ch(c) == [c |-> c, lvl |-> 0]

Ent(c, n) == [c |-> c, lvl |-> n]

Str(s) == [i \in 1..Len(s) |-> Ch(s[i])]

Min(S) == CHOOSE x \in S : \A y \in S : x <= y

\* the element of a set of one element
Only(S) == CHOOSE x \in S : TRUE

\* the characters xml.EscapeText replaces by an entity
EscapeSet == {"\"", "'", "&", "<", ">", "\t", "\n", "\r"}

\* xml.EscapeText
EscapeText(s) ==
  [i \in 1..Len(s) |->
     IF s[i].lvl > 0 \/ s[i].c \in EscapeSet
     THEN [c |-> s[i].c, lvl |-> s[i].lvl + 1]
     ELSE s[i]]

\* characters outside the XML character range (the form feed stands for
\* them all)
IllegalChars == {"\f"}

Letters ==
  {"a", "b", "c", "d", "e", "f", "g", "h", "i", "j", "k", "l", "m",
   "n", "o", "p", "q", "r", "s", "t", "u", "v", "w", "x", "y", "z",
   "A", "B", "C", "D", "E", "F", "G", "H", "I", "J", "K", "L", "M",
   "N", "O", "P", "Q", "R", "S", "T", "U", "V", "W", "X", "Y", "Z"}

Digits == {"0", "1", "2", "3", "4", "5", "6", "7", "8", "9"}

NameBytes == Letters \cup Digits \cup {"_", ":", ".", "-"}

\* characters of more than one byte: one of the table of name starts, one
\* of the table of name characters only, one of neither table
FirstRunes == {"é"}

SecondRunes == {"·"}

OtherRunes == {"×"}

\* the characters whose bytes are utf8.RuneSelf or more
NonASCII == FirstRunes \cup SecondRunes \cup OtherRunes

\* encoding/xml isNameByte
isNameByte(u) == u.lvl = 0 /\ u.c \in NameBytes

\* the tables first and second of encoding/xml
First == Letters \cup {"_", ":"} \cup FirstRunes

Second == Digits \cup {".", "-"} \cup SecondRunes

\* encoding/xml isName
isName(n) ==
  /\ n # <<>>
  /\ n[1] \in First
  /\ \A k \in 2..Len(n) : n[k] \in First \cup Second

Colons(s) == {i \in 1..Len(s) : s[i] = ":"}

\* encoding/xml Decoder.nsname refuses a name with more than one colon
nsnameOK(s) == Cardinality(Colons(s)) <= 1

\* encoding/xml Decoder.nsname as RawToken leaves it: the prefix is the Space
nsname(s) ==
  IF Colons(s) = {} \/ Min(Colons(s)) = 1 \/ Min(Colons(s)) = Len(s)
  THEN [Space |-> <<>>, Local |-> s]
  ELSE [Space |-> SubSeq(s, 1, Min(Colons(s)) - 1),
        Local |-> SubSeq(s, Min(Colons(s)) + 1, Len(s))]

(***************************************************************************)
(* Lexemes of a buffer and tokens of the decoder                           *)
(***************************************************************************)
NoName == [Space |-> <<>>, Local |-> <<>>]

STag(n, a) == [k |-> "S", name |-> n, attr |-> a, txt |-> <<>>]

XTag(n, a) == [k |-> "X", name |-> n, attr |-> a, txt |-> <<>>]

ETag(n) == [k |-> "E", name |-> n, attr |-> <<>>, txt |-> <<>>]

Text(s) == [k |-> "T", name |-> <<>>, attr |-> <<>>, txt |-> s]

RawAttr(n, v) == [name |-> n, val |-> v]

StartElement(n, a) == [k |-> "S", Name |-> n, Attr |-> a, Data |-> <<>>]

EndElement(n) == [k |-> "E", Name |-> n, Attr |-> <<>>, Data |-> <<>>]

CharData(s) == [k |-> "T", Name |-> NoName, Attr |-> <<>>, Data |-> s]

\* a Comment, ProcInst or Directive token
Other == [k |-> "O", Name |-> NoName, Attr |-> <<>>, Data |-> <<>>]

SyntaxError == [k |-> "ERR", Name |-> NoName, Attr |-> <<>>, Data |-> <<>>]

(***************************************************************************)
(* The bytes of a buffer, as xmlTmpl writes them                           *)
(***************************************************************************)
RECURSIVE RenderAttr(_)
RenderAttr(a) ==
  IF a = <<>> THEN <<>>
  ELSE <<Ch(" ")>> \o Str(Head(a).name) \o <<Ch("="), Ch("\"")>>
         \o Head(a).val \o <<Ch("\"")>> \o RenderAttr(Tail(a))

RenderLexeme(x) ==
  CASE x.k = "S" -> <<Ch("<")>> \o Str(x.name) \o RenderAttr(x.attr) \o <<Ch(">")>>
    [] x.k = "X" -> <<Ch("<")>> \o Str(x.name) \o RenderAttr(x.attr)
                      \o <<Ch(" "), Ch("/"), Ch(">")>>
    [] x.k = "E" -> <<Ch("<"), Ch("/")>> \o Str(x.name) \o <<Ch(">")>>
    [] OTHER -> x.txt

RECURSIVE Render(_)
Render(d) ==
  IF d = <<>> THEN <<>> ELSE RenderLexeme(Head(d)) \o Render(Tail(d))

(***************************************************************************)
(* encoding/xml Decoder.RawToken on the bytes of a buffer                  *)
(***************************************************************************)
\* the byte at position i; "" at the end of the input and inside an entity
At(s, i) == IF i <= Len(s) /\ s[i].lvl = 0 THEN s[i].c ELSE ""

\* the byte c was read n bytes before position i, not before position from
RawAt(s, from, i, n, c) == i >= from + n /\ s[i - n].lvl = 0 /\ s[i - n].c = c

Legal(buf) == \A k \in 1..Len(buf) : ~(buf[k].lvl = 0 /\ buf[k].c \in IllegalChars)

\* Decoder.space
RECURSIVE space(_, _)
space(s, i) ==
  IF At(s, i) \in {" ", "\r", "\n", "\t"} THEN space(s, i + 1) ELSE i

\* Decoder.readName: the end of the run at i of name bytes and of bytes
\* that are utf8.RuneSelf or more
RECURSIVE readName(_, _)
readName(s, i) ==
  IF i <= Len(s) /\ (isNameByte(s[i]) \/ (s[i].lvl = 0 /\ s[i].c \in NonASCII))
  THEN readName(s, i + 1)
  ELSE i

\* Decoder.name: a name has to be followed by a byte
name(s, i) ==
  Only({ Only({ [ok |-> j > i /\ j <= Len(s) /\ isName(n), val |-> n, i |-> j]
                : n \in {[k \in 1..(j - i) |-> s[i + k - 1].c]} })
         : j \in {readName(s, i)} })

\* Decoder.text from position i, the text having started at from: up to the
\* closing quote (quote # ""), up to "]]>" (cdata) or up to the next "<".
\* Entities are replaced, a bare \r becomes \n and the \n of a bare \r\n is
\* skipped; "]]>" outside a quoted value, "<" inside one, a bare "&" and a
\* character outside the XML range are errors.
RECURSIVE text(_, _, _, _, _, _)
text(s, from, pos, quote, cdata, sofar) ==
  Only({
  IF i > Len(s)
  THEN [ok |-> ~cdata /\ Legal(buf), val |-> buf, i |-> i]
  ELSE LET b == At(s, i) IN
    IF quote = "" /\ b = ">" /\ RawAt(s, from, i, 1, "]") /\ RawAt(s, from, i, 2, "]")
    THEN [ok |-> cdata /\ Legal(buf), val |-> SubSeq(buf, 1, Len(buf) - 2), i |-> i + 1]
    ELSE IF b = "<" /\ ~cdata
    THEN [ok |-> quote = "" /\ Legal(buf), val |-> buf, i |-> i]
    ELSE IF quote # "" /\ b = quote
    THEN [ok |-> Legal(buf), val |-> buf, i |-> i + 1]
    ELSE IF b = "&" /\ ~cdata
    THEN [ok |-> FALSE, val |-> buf, i |-> i]
    ELSE IF s[i].lvl > 0 /\ ~cdata
    THEN text(s, from, i + 1, quote, cdata,
              Append(buf, [c |-> s[i].c, lvl |-> s[i].lvl - 1]))
    ELSE IF b = "\r"
    THEN text(s, from, i + 1, quote, cdata, Append(buf, Ch("\n")))
    ELSE IF b = "\n" /\ RawAt(s, from, i, 1, "\r")
    THEN text(s, from, i + 1, quote, cdata, buf)
    ELSE text(s, from, i + 1, quote, cdata, Append(buf, s[i]))
  : i \in {pos}, buf \in {sofar} })

\* Decoder.attrval after "=" and spaces: Strict, the value is quoted
attrval(s, i) ==
  IF At(s, i) \in {"\"", "'"}
  THEN text(s, i + 1, i + 1, At(s, i), FALSE, <<>>)
  ELSE [ok |-> FALSE, val |-> <<>>, i |-> i]

\* one attribute at position i: Strict, a name has to be followed by "="
attribute(s, i) ==
  Only({
    IF ~n.ok \/ ~nsnameOK(n.val) \/ At(s, space(s, n.i)) # "="
    THEN [ok |-> FALSE, attr |-> <<>>, i |-> i]
    ELSE Only({ [ok |-> v.ok,
                 attr |-> [Name |-> nsname(n.val), Value |-> v.val],
                 i |-> v.i]
                : v \in {attrval(s, space(s, space(s, n.i) + 1))} })
    : n \in {name(s, i)} })

\* the attribute loop of Decoder.rawToken, up to ">" or "/>"
RECURSIVE attrs(_, _, _)
attrs(s, pos, sofar) ==
  Only({
    IF At(s, j) = "/"
    THEN [ok |-> At(s, j + 1) = ">", attr |-> attr, empty |-> TRUE, i |-> j + 2]
    ELSE IF At(s, j) = ">"
    THEN [ok |-> TRUE, attr |-> attr, empty |-> FALSE, i |-> j + 1]
    ELSE Only({ IF a.ok THEN attrs(s, a.i, Append(attr, a.attr))
                ELSE [ok |-> FALSE, attr |-> attr, empty |-> FALSE, i |-> j]
                : a \in {attribute(s, j)} })
    : j \in {space(s, pos)}, attr \in {sofar} })

Tok(t, i) == [toks |-> t, i |-> i]

Bad == Tok(<<SyntaxError>>, 0)

\* "<name ...": an empty tag yields its start and then its end (needClose)
startElement(s, i) ==
  Only({
    IF ~n.ok \/ ~nsnameOK(n.val) THEN Bad
    ELSE Only({
      IF ~a.ok THEN Bad
      ELSE IF a.empty
      THEN Tok(<<StartElement(nsname(n.val), a.attr), EndElement(nsname(n.val))>>, a.i)
      ELSE Tok(<<StartElement(nsname(n.val), a.attr)>>, a.i)
      : a \in {attrs(s, n.i, <<>>)} })
    : n \in {name(s, i)} })

\* "</name>"
endElement(s, i) ==
  Only({
    IF ~n.ok \/ ~nsnameOK(n.val) THEN Bad
    ELSE IF At(s, space(s, n.i)) = ">"
    THEN Tok(<<EndElement(nsname(n.val))>>, space(s, n.i) + 1)
    ELSE Bad
    : n \in {name(s, i)} })

\* the first position from m on where the bytes p stand (0: none)
Index(cs, m, p) ==
  LET M == {j \in m..Len(cs) :
              /\ j + Len(p) - 1 <= Len(cs)
              /\ \A k \in 1..Len(p) : At(cs, j + k - 1) = p[k]}
  IN IF M = {} THEN 0 ELSE Min(M)

\* encoding/xml procInst: the quoted value after param= in a declaration
RECURSIVE procInstFrom(_, _, _)
procInstFrom(p, cs, from) ==
  Only({
    IF m > Len(cs) \/ k = 0 \/ k + Len(p) > Len(cs)
    THEN <<>>
    ELSE IF At(cs, k + Len(p)) \in {"'", "\""}
    THEN Only({ IF j = 0 THEN <<>> ELSE SubSeq(cs, k + Len(p) + 1, j - 1)
                : j \in {Index(cs, k + Len(p) + 1, <<At(cs, k + Len(p))>>)} })
    ELSE procInstFrom(p, cs, k + Len(p) + 1)
    : m \in {from}, k \in {Index(cs, from, p)} })

procInst(param, cs) == procInstFrom(param \o <<"=">>, cs, 1)

\* the declaration <?xml ...?> may name version 1.0 and encoding utf-8 only
\* (no CharsetReader is set)
VersionOK(v) == v = <<>> \/ v = Str(<<"1", ".", "0">>)

EncodingOK(e) ==
  \/ e = <<>>
  \/ /\ Len(e) = 5
     /\ At(e, 1) \in {"u", "U"} /\ At(e, 2) \in {"t", "T"} /\ At(e, 3) \in {"f", "F"}
     /\ At(e, 4) = "-" /\ At(e, 5) = "8"

\* the ">" of the first "?>" from position i on, the scan having started
\* at from (0: none)
RECURSIVE piEnd(_, _, _)
piEnd(s, from, i) ==
  IF i > Len(s) THEN 0
  ELSE IF At(s, i) = ">" /\ RawAt(s, from, i, 1, "?") THEN i
  ELSE piEnd(s, from, i + 1)

\* "<?target ...?>"
procInstToken(s, i) ==
  Only({
    IF ~t.ok THEN Bad
    ELSE Only({
      IF e = 0 THEN Bad
      ELSE Only({
        IF /\ t.val = <<"x", "m", "l">>
           /\ \/ ~VersionOK(procInst(<<"v", "e", "r", "s", "i", "o", "n">>, cs))
              \/ ~EncodingOK(procInst(<<"e", "n", "c", "o", "d", "i", "n", "g">>, cs))
        THEN Bad
        ELSE Tok(<<Other>>, e + 1)
        : cs \in {SubSeq(s, space(s, t.i), e - 2)} })
      : e \in {piEnd(s, space(s, t.i), space(s, t.i))} })
    : t \in {name(s, i)} })

\* the first position from i on that has "--" right before it, the scan
\* having started at from (0: none)
RECURSIVE commentEnd(_, _, _)
commentEnd(s, from, i) ==
  IF i > Len(s) THEN 0
  ELSE IF RawAt(s, from, i, 1, "-") /\ RawAt(s, from, i, 2, "-") THEN i
  ELSE commentEnd(s, from, i + 1)

\* "<!-- ... -->": "--" inside a comment is an error
comment(s, i) ==
  Only({ IF e = 0 \/ At(s, e) # ">" THEN Bad ELSE Tok(<<Other>>, e + 1)
         : e \in {commentEnd(s, i, i)} })

\* the ">" of the first "-->" from i on, the scan having started at from
RECURSIVE innerCommentEnd(_, _, _)
innerCommentEnd(s, from, i) ==
  IF i > Len(s) THEN 0
  ELSE IF At(s, i) = ">" /\ RawAt(s, from, i, 1, "-") /\ RawAt(s, from, i, 2, "-")
  THEN i
  ELSE innerCommentEnd(s, from, i + 1)

\* "<![CDATA[ ... ]]>": character data taken as it is
cdataSection(s, i) ==
  IF \E k \in 1..6 : At(s, i + k - 1) # <<"C", "D", "A", "T", "A", "[">>[k]
  THEN Bad
  ELSE Only({ IF r.ok THEN Tok(<<CharData(r.val)>>, r.i) ELSE Bad
              : r \in {text(s, i + 6, i + 6, "", TRUE, <<>>)} })

\* "<!...>": a directive ends at the ">" that is outside quotes and outside
\* nested "<...>"; comments inside it are skipped.  The position after the
\* directive (0: it does not end).
RECURSIVE directive(_, _, _, _)
directive(s, pos, inquote, depth) ==
  Only({
  IF i > Len(s) THEN 0
  ELSE LET b == At(s, i) IN
    IF inquote = "" /\ b = ">" /\ depth = 0 THEN i + 1
    ELSE IF b # "" /\ b = inquote THEN directive(s, i + 1, "", depth)
    ELSE IF inquote # "" THEN directive(s, i + 1, inquote, depth)
    ELSE IF b \in {"'", "\""} THEN directive(s, i + 1, b, depth)
    ELSE IF b = ">" THEN directive(s, i + 1, "", depth - 1)
    ELSE IF b = "<"
    THEN IF i + 1 > Len(s) THEN 0
         ELSE IF At(s, i + 1) # "!" THEN directive(s, i + 1, "", depth + 1)
         ELSE IF i + 2 > Len(s) THEN 0
         ELSE IF At(s, i + 2) # "-" THEN directive(s, i + 2, "", depth + 1)
         ELSE IF i + 3 > Len(s) THEN 0
         ELSE IF At(s, i + 3) # "-" THEN directive(s, i + 3, "", depth + 1)
         ELSE Only({ IF e = 0 THEN 0 ELSE directive(s, e + 1, "", depth)
                     : e \in {innerCommentEnd(s, i + 4, i + 4)} })
    ELSE directive(s, i + 1, "", depth)
  : i \in {pos} })

\* "<!": a comment, a CDATA section or a directive, whose first byte is
\* taken as it is
bang(s, i) ==
  IF i > Len(s) THEN Bad
  ELSE IF At(s, i) = "-"
  THEN IF At(s, i + 1) = "-" THEN comment(s, i + 2) ELSE Bad
  ELSE IF At(s, i) = "["
  THEN cdataSection(s, i + 1)
  ELSE Only({ IF e = 0 THEN Bad ELSE Tok(<<Other>>, e)
              : e \in {directive(s, i + 1, "", 0)} })

\* Decoder.rawToken at position i: the tokens read and the position after
rawToken(s, i) ==
  IF At(s, i) # "<"
  THEN Only({ IF r.ok THEN Tok(<<CharData(r.val)>>, r.i) ELSE Bad
              : r \in {text(s, i, i, "", FALSE, <<>>)} })
  ELSE IF i + 1 > Len(s) THEN Bad
  ELSE CASE At(s, i + 1) = "/" -> endElement(s, i + 2)
         [] At(s, i + 1) = "?" -> procInstToken(s, i + 2)
         [] At(s, i + 1) = "!" -> bang(s, i + 2)
         [] OTHER -> startElement(s, i + 1)

\* the tokens p.RawToken() yields until io.EOF or an error
RECURSIVE tokens(_, _)
tokens(s, i) ==
  IF i > Len(s) THEN <<>>
  ELSE Only({ IF r.toks = <<SyntaxError>> THEN r.toks ELSE r.toks \o tokens(s, r.i)
              : r \in {rawToken(s, i)} })

(***************************************************************************)
(* The tokens of a buffer whose lexemes read back as they were written     *)
(***************************************************************************)
PlainName(n) == isName(n) /\ nsnameOK(n)

\* a value that holds the closing quote does not read back as one value
PlainValue(v) == \A i \in 1..Len(v) : ~(v[i].lvl = 0 /\ v[i].c = "\"")

PlainLexeme(x) ==
  IF x.k = "T"
  THEN x.txt # <<>> /\ \A i \in 1..Len(x.txt) : ~(x.txt[i].lvl = 0 /\ x.txt[i].c = "<")
  ELSE /\ PlainName(x.name)
       /\ \A i \in 1..Len(x.attr) :
            PlainName(x.attr[i].name) /\ PlainValue(x.attr[i].val)

Plain(d) ==
  /\ \A i \in 1..Len(d) : PlainLexeme(d[i])
  /\ \A i \in 1..Len(d) : i < Len(d) => ~(d[i].k = "T" /\ d[i + 1].k = "T")

\* Decoder.text on a plain string: which units are syntax errors
BadUnit(u, quoted) ==
  \/ u.lvl = 0 /\ (u.c = "&" \/ (quoted /\ u.c = "<"))
  \/ u.lvl <= 1 /\ u.c \in IllegalChars

\* "]]>" written out in character data is an error (not in a quoted value)
CDataEnd(s) ==
  \E i \in 1..Len(s) :
    /\ i + 2 <= Len(s)
    /\ s[i] = Ch("]") /\ s[i + 1] = Ch("]") /\ s[i + 2] = Ch(">")

TextOK(s, quoted) ==
  /\ \A i \in 1..Len(s) : ~BadUnit(s[i], quoted)
  /\ quoted \/ ~CDataEnd(s)

\* Decoder.text on a plain string: entities are replaced, a bare \r becomes
\* \n and the \n of a bare \r\n is skipped
RECURSIVE UnescapeFrom(_, _, _)
UnescapeFrom(s, i, afterCR) ==
  IF i > Len(s) THEN <<>>
  ELSE IF s[i].lvl > 0
       THEN <<[c |-> s[i].c, lvl |-> s[i].lvl - 1]>> \o UnescapeFrom(s, i + 1, FALSE)
  ELSE IF s[i].c = "\r" THEN <<Ch("\n")>> \o UnescapeFrom(s, i + 1, TRUE)
  ELSE IF s[i].c = "\n" /\ afterCR THEN UnescapeFrom(s, i + 1, FALSE)
  ELSE <<s[i]>> \o UnescapeFrom(s, i + 1, FALSE)

Unescape(s) == UnescapeFrom(s, 1, FALSE)

DecodeAttrs(a) ==
  [i \in 1..Len(a) |-> [Name |-> nsname(a[i].name), Value |-> Unescape(a[i].val)]]

AttrsOK(a) == \A i \in 1..Len(a) : TextOK(a[i].val, TRUE)

\* the tokens of one plain lexeme
TokensOf(x) ==
  CASE x.k = "S" ->
         IF AttrsOK(x.attr)
         THEN <<StartElement(nsname(x.name), DecodeAttrs(x.attr))>>
         ELSE <<SyntaxError>>
    [] x.k = "X" ->
         IF AttrsOK(x.attr)
         THEN <<StartElement(nsname(x.name), DecodeAttrs(x.attr)),
                EndElement(nsname(x.name))>>
         ELSE <<SyntaxError>>
    [] x.k = "E" -> <<EndElement(nsname(x.name))>>
    [] OTHER ->
         IF TextOK(x.txt, FALSE)
         THEN <<CharData(Unescape(x.txt))>>
         ELSE <<SyntaxError>>

RECURSIVE PlainTokens(_)
PlainTokens(d) ==
  IF d = <<>> THEN <<>>
  ELSE Only({ IF t = <<SyntaxError>> THEN t ELSE t \o PlainTokens(Tail(d))
              : t \in {TokensOf(Head(d))} })

\* the tokens p.RawToken() yields on buffer d until io.EOF or an error
RawTokens(d) ==
  IF Plain(d) THEN PlainTokens(d) ELSE Only({tokens(s, 1) : s \in {Render(d)}})

(***************************************************************************)
(* xmlTmpl                                                                 *)
(***************************************************************************)
TmplName(n) ==
  IF n.Space # <<>> THEN n.Space \o <<":">> \o n.Local ELSE n.Local

TmplAttr(a) ==
  [i \in 1..Len(a) |-> RawAttr(TmplName(a[i].Name), a[i].Value)]

TmplStartTag(t) == <<STag(TmplName(t.Name), TmplAttr(t.Attr))>>

TmplEndTag(t) == <<ETag(TmplName(t.Name))>>

TmplEmptyTag(t) == <<XTag(TmplName(t.Name), TmplAttr(t.Attr))>>

TmplElement(el) ==
  IF el.Data # <<>>
  THEN TmplStartTag(el) \o el.Data \o TmplEndTag(el)
  ELSE TmplEmptyTag(el)

marshal(el) == TmplElement(el)

(***************************************************************************)
(* Tree builder                                                            *)
(***************************************************************************)
Element(t, d) == [Name |-> t.Name, Attr |-> t.Attr, Data |-> d]

\* bytes.Buffer.Write of escaped character data: no bytes for an empty
\* string, and text after text is one run of text
WriteText(to, s) ==
  Only({ IF s = <<>> THEN buf
         ELSE IF buf # <<>> /\ buf[Len(buf)].k = "T"
         THEN [buf EXCEPT ![Len(buf)].txt = @ \o s]
         ELSE Append(buf, Text(s))
         : buf \in {to} })

RECURSIVE elementData(_, _, _)
elementData(p, start, buf) ==
  IF p = <<>> THEN [err |-> "EOF", buf |-> buf, rest |-> p]
  ELSE LET tok == Head(p) IN
    CASE tok.k = "ERR" -> [err |-> "syntax error", buf |-> buf, rest |-> p]
      [] tok.k = "S" ->
           Only({ IF r.err # "" THEN r
                  ELSE elementData(r.rest, start, r.buf \o TmplEndTag(tok))
                  : r \in {elementData(Tail(p), tok, buf \o TmplStartTag(tok))} })
      [] tok.k = "T" ->
           elementData(Tail(p), start, WriteText(buf, EscapeText(tok.Data)))
      [] tok.k = "E" ->
           IF tok.Name = start.Name
           THEN [err |-> "", buf |-> buf, rest |-> Tail(p)]
           ELSE [err |-> "Unexpected end element", buf |-> buf, rest |-> p]
      [] OTHER -> elementData(Tail(p), start, buf)

RECURSIVE elementsLoop(_, _)
elementsLoop(p, elem) ==
  IF p = <<>> THEN [err |-> "", elem |-> elem]
  ELSE LET tok == Head(p) IN
    CASE tok.k = "ERR" -> [err |-> "syntax error", elem |-> <<>>]
      [] tok.k = "S" ->
           Only({ IF r.err # "" THEN [err |-> r.err, elem |-> <<>>]
                  ELSE elementsLoop(r.rest, Append(elem, Element(tok, r.buf)))
                  : r \in {elementData(Tail(p), tok, <<>>)} })
      [] OTHER -> elementsLoop(Tail(p), elem)

elements(d) == Only({elementsLoop(p, <<>>) : p \in {RawTokens(d)}})

Children(el) ==
  Only({IF r.err # "" THEN <<>> ELSE r.elem : r \in {elements(el.Data)}})

(***************************************************************************)
(* Input documents                                                         *)
(***************************************************************************)
MaxChunks == 3

\* the times the model follows the recursion into a call for an element it
\* is already inside
MaxRounds == 2

sMultiRef == <<"m", "u", "l", "t", "i", "R", "e", "f">>

sHref == <<"h", "r", "e", "f">>

sId == <<"i", "d">>

nE == <<"e">>

nMR == <<"n", "s", ":">> \o sMultiRef

aId(v) == RawAttr(sId, Str(v))

aHref(v) == RawAttr(sHref, Str(<<"#">> \o v))

aEsc == RawAttr(<<"x">>, <<Ent("<", 1)>>)

tT == Text(<<Ch("t"), Ent("<", 1)>>)

Chunks ==
  { <<STag(nE, <<>>)>>,
    <<ETag(nE)>>,
    <<tT>>,
    <<XTag(nE, <<aHref(<<"a">>)>>)>>,
    <<STag(nE, <<aId(<<"a">>)>>)>>,
    <<STag(nMR, <<aId(<<"a">>)>>)>>,
    <<ETag(nMR)>>,
    <<STag(nE, <<aHref(<<"b">>)>>)>>,
    <<XTag(nE, <<aEsc, aHref(<<"a">>)>>)>>,
    <<STag(nE, <<aId(<<"a">>)>>), tT, ETag(nE)>>,
    <<STag(nE, <<aId(<<"a">>)>>), XTag(nE, <<aHref(<<"b">>)>>), ETag(nE)>>,
    <<STag(nE, <<aId(<<"b">>)>>), XTag(nE, <<aHref(<<"a">>)>>), ETag(nE)>>,
    <<STag(nE, <<aId(<<"b">>)>>), tT, ETag(nE)>> }

RECURSIVE DocsOfLen(_)
DocsOfLen(n) ==
  IF n = 0 THEN {<<>>}
  ELSE {c \o d : c \in Chunks, d \in DocsOfLen(n - 1)}

\* adjacent text lexemes are one run of character data
RECURSIVE Norm(_)
Norm(d) ==
  IF Len(d) < 2 THEN d
  ELSE IF d[1].k = "T" /\ d[2].k = "T"
       THEN Norm(<<Text(d[1].txt \o d[2].txt)>> \o SubSeq(d, 3, Len(d)))
       ELSE <<d[1]>> \o Norm(Tail(d))

\* a document inside an envelope element
Wrap(d) == <<STag(nE, <<>>)>> \o d \o <<ETag(nE)>>

\* the document of ExampleUnmarshal
xmlData ==
  LET ws(n) == Text(Str(<<"\n">> \o [i \in 1..n |-> " "]))
      Envelope == <<"E", "n", "v", "e", "l", "o", "p", "e">>
      Header == <<"H", "e", "a", "d", "e", "r">>
      sessionId == <<"s", "e", "s", "s", "i", "o", "n", "I", "d">>
      Body == <<"B", "o", "d", "y">>
  IN << STag(Envelope, <<>>), ws(2),
        STag(Header, <<>>), ws(4),
        XTag(sessionId, <<aHref(<<"i", "d", "0">>)>>), ws(2),
        ETag(Header), ws(2),
        STag(Body, <<>>), ws(4),
        STag(sMultiRef, <<aId(<<"i", "d", "0">>)>>),
        Text(Str(<<"1", "2", "3", "4", "5", "6">>)),
        ETag(sMultiRef), ws(2),
        ETag(Body), ws(0),
        ETag(Envelope) >>

Docs == UNION {DocsOfLen(n) : n \in 0..MaxChunks}

\* the bytes of a document with a declaration, a directive, a comment and a
\* CDATA section
Prolog ==
  Str(<<
    "<", "?", "x", "m", "l", " ", "v", "e", "r", "s", "i", "o", "n", "=",
    "\"", "1", ".", "0", "\"", "?", ">", "<", "!", "D", "O", "C", "T", "Y",
    "P", "E", " ", "e", ">", "<", "e", ">", "<", "!", "-", "-", "c", "-",
    "-", ">", "<", "!", "[", "C", "D", "A", "T", "A", "[", "<", "]", "]",
    ">", "<", "/", "e", ">" >>)

aQuote(v) == RawAttr(<<"x">>, <<Ent("\"", 1)>> \o v)

\* documents for the decoder's corner cases: \r\n in text and in a value,
\* "]]>" written out and escaped, a character outside the XML range, an
\* escaped quote in a value, bytes that are not tags and text only, names
\* with characters of more than one byte, a placeholder named multiRef
Edge ==
  { Wrap(<<Text(Str(<<"a", "\r", "\n", "b">>))>>),
    Wrap(<<XTag(nE, <<RawAttr(<<"x">>, Str(<<"a", "\r", "\n", "b">>))>>)>>),
    Wrap(<<Text(Str(<<"]", "]", ">">>))>>),
    Wrap(<<Text(<<Ch("]"), Ch("]"), Ent(">", 1)>>)>>),
    Wrap(<<Text(Str(<<"\f">>))>>),
    Wrap(<<Text(<<Ent("\f", 1)>>)>>),
    Wrap(<<XTag(nE, <<aQuote(<<>>)>>)>>),
    Wrap(<<XTag(nE, <<aQuote(<<Ent(">", 1)>>)>>)>>),
    Wrap(<<XTag(nE, <<aQuote(<<Ch("y"), Ch("="), Ent("\"", 1)>>)>>)>>),
    Wrap(<<XTag(nE, <<aQuote(<<Ch(" "), Ch("i"), Ch("d"), Ch("="), Ent("\"", 1), Ch("a")>>)>>),
           XTag(nE, <<aHref(<<"a">>)>>)>>),
    <<Text(Prolog)>>,
    Wrap(<<XTag(<<"é">>, <<RawAttr(<<"a", "·">>, Str(<<"×">>))>>)>>),
    Wrap(<<XTag(<<"×">>, <<>>)>>),
    Wrap(<<XTag(<<"·", "a">>, <<>>)>>),
    Wrap(<<STag(nMR, <<aHref(<<"b">>)>>), tT, ETag(nMR)>>) }

Inputs ==
  {Norm(d) : d \in Docs} \cup {Norm(Wrap(d)) : d \in Docs} \cup {xmlData} \cup Edge

(***************************************************************************)
(* Attribute lookup and the reference index                                *)
(***************************************************************************)
RECURSIVE findAttrFrom(_, _, _, _)
findAttrFrom(list, ns, local, i) ==
  IF i > Len(list) THEN 0
  ELSE IF list[i].Name.Local = local /\ (ns = <<>> \/ ns = list[i].Name.Space)
       THEN i
       ELSE findAttrFrom(list, ns, local, i + 1)

\* the index of the first matching attribute, 0 for nil
findAttr(list, ns, local) == findAttrFrom(list, ns, local, 1)

findHref(list) ==
  LET i == findAttr(list, <<>>, sHref) IN
  IF i # 0 /\ Len(list[i].Value) > 1 /\ list[i].Value[1] = Ch("#")
  THEN [ok |-> TRUE, val |-> SubSeq(list[i].Value, 2, Len(list[i].Value))]
  ELSE [ok |-> FALSE, val |-> <<>>]

findId(list) ==
  LET i == findAttr(list, <<>>, sId) IN
  IF i # 0
  THEN [ok |-> TRUE, val |-> list[i].Value]
  ELSE [ok |-> FALSE, val |-> <<>>]

EmptyMRef == [x \in {} |-> x]

\* a map that keeps the first element recorded for an id
MapSetFirst(m, id, root) == m @@ (id :> root)

\* mref[id] = root
MapSet(m, id, root) == (id :> root) @@ m

RECURSIVE walkMultiRef(_, _)
RECURSIVE walkChildren(_, _)
walkChildren(children, m) ==
  IF children = <<>> THEN m
  ELSE walkChildren(Tail(children), walkMultiRef(Head(children), m))

walkMultiRef(root, m) ==
  LET m1 == walkChildren(Children(root), m)
      id == findId(root.Attr)
  IN IF id.ok THEN MapSet(m1, id.val, root) ELSE m1

buildMRef(d) ==
  LET r == elements(d) IN
  IF r.err # "" THEN [err |-> r.err, mref |-> EmptyMRef]
  ELSE [err |-> "", mref |-> walkChildren(r.elem, EmptyMRef)]

(***************************************************************************)
(* Flatten and flattenXML, one recursive call per step                     *)
(***************************************************************************)
NoElem == [Name |-> NoName, Attr |-> <<>>, Data |-> <<>>]

\* a pending flattenXML call: the element as passed, root after the href
\* substitution, the children still to flatten and the bytes accumulated
Frame(arg, root, kids) ==
  [arg |-> arg, root |-> root, kids |-> kids, accum |-> <<>>]

isMultiRef(root) == root.Name.Local = sMultiRef

\* a substitution that empties a placeholder whose id is not in the index
hrefSubstOrEmpty(root, m) ==
  LET h == findHref(root.Attr) IN
  IF h.ok
  THEN [root EXCEPT !.Data = IF h.val \in DOMAIN m THEN m[h.val].Data ELSE <<>>]
  ELSE root

\* root.Data = el.Data when root has an href the index resolves
hrefSubst(root, m) ==
  LET h == findHref(root.Attr) IN
  IF h.ok /\ h.val \in DOMAIN m
  THEN [root EXCEPT !.Data = m[h.val].Data]
  ELSE root

\* flattenXML as the recursive function it is; the actions below run the
\* same recursion one call per step
RECURSIVE flattenXML(_, _)
RECURSIVE flattenAll(_, _)
flattenAll(elems, m) ==
  IF elems = <<>> THEN <<>>
  ELSE flattenXML(Head(elems), m) \o flattenAll(Tail(elems), m)

flattenXML(root, m) ==
  IF isMultiRef(root) THEN <<>>
  ELSE LET r1 == hrefSubst(root, m)
           children == Children(r1)
       IN IF Len(children) > 0
          THEN marshal([r1 EXCEPT !.Data = flattenAll(children, m)])
          ELSE marshal(r1)

Top == stack[Len(stack)]

Next1 == Head(Top.kids)

\* a loop over the children that never moves on to the next child
DeliverSameChild(st, res) == [st EXCEPT ![Len(st)].accum = res]

\* the caller takes the callee's bytes and moves on to the next child
Deliver(st, res) ==
  [st EXCEPT ![Len(st)].accum = @ \o res, ![Len(st)].kids = Tail(@)]

Pop(st) == SubSeq(st, 1, Len(st) - 1)

\* the calls for element el the recursion is inside
Entered(st, el) == Cardinality({i \in 2..Len(st) : st[i].arg = el})

Logged(el, res) == calls \cup {[el |-> el, res |-> res]}

\* Flatten up to its loop: the index pass and the second parse
FlattenStart ==
  /\ pc = "start"
  /\ LET b == buildMRef(data)
         r == elements(data)
     IN IF b.err # "" THEN
          /\ pc' = "failed" /\ err' = b.err
          /\ UNCHANGED <<mref, stack>>
        ELSE IF r.err # "" THEN
          /\ pc' = "failed" /\ err' = r.err /\ mref' = b.mref
          /\ UNCHANGED stack
        ELSE
          /\ pc' = "flatten" /\ mref' = b.mref
          /\ stack' = <<Frame(NoElem, NoElem, r.elem)>>
          /\ UNCHANGED err
  /\ UNCHANGED <<data, out, calls>>

\* flattenXML on an element named multiRef returns no bytes
FlattenXMLMultiRef ==
  /\ pc = "flatten" /\ Top.kids # <<>>
  /\ isMultiRef(Next1)
  /\ stack' = Deliver(stack, <<>>)
  /\ calls' = Logged(Next1, <<>>)
  /\ UNCHANGED <<data, pc, mref, out, err>>

\* flattenXML with a visited set: an element the recursion is already
\* inside is emitted as it is
FlattenXMLLeafOrDeep ==
  /\ pc = "flatten" /\ Top.kids # <<>>
  /\ ~isMultiRef(Next1)
  /\ LET root == hrefSubst(Next1, mref) IN
       /\ Len(Children(root)) = 0 \/ Entered(stack, Next1) > 0
       /\ stack' = Deliver(stack, marshal(root))
       /\ calls' = Logged(Next1, marshal(root))
  /\ UNCHANGED <<data, pc, mref, out, err>>

\* flattenXML on an element that has no children after the substitution
FlattenXMLLeaf ==
  /\ pc = "flatten" /\ Top.kids # <<>>
  /\ ~isMultiRef(Next1)
  /\ LET root == hrefSubst(Next1, mref) IN
       /\ Len(Children(root)) = 0
       /\ stack' = Deliver(stack, marshal(root))
       /\ calls' = Logged(Next1, marshal(root))
  /\ UNCHANGED <<data, pc, mref, out, err>>

\* flattenXML on an element with children: a recursive call for each
FlattenXMLDescend ==
  /\ pc = "flatten" /\ Top.kids # <<>>
  /\ ~isMultiRef(Next1)
  /\ Entered(stack, Next1) < MaxRounds
  /\ LET root == hrefSubst(Next1, mref) IN
       /\ Len(Children(root)) > 0
       /\ stack' = Append(stack, Frame(Next1, root, Children(root)))
  /\ UNCHANGED <<data, pc, mref, out, err, calls>>

\* flattenXML called for an element it is already inside: the calls made
\* since repeat, each one on top of the last, until the stack of the
\* goroutine is used up and the program dies.  The rounds in between are
\* not followed.
FlattenXMLOverflow ==
  /\ pc = "flatten" /\ Top.kids # <<>>
  /\ ~isMultiRef(Next1)
  /\ Entered(stack, Next1) >= MaxRounds
  /\ Len(Children(hrefSubst(Next1, mref))) > 0
  /\ pc' = "crashed"
  /\ UNCHANGED <<data, mref, stack, out, err, calls>>

\* the loop over the children is over: root.Data = accum, marshal, return
FlattenXMLReturn ==
  /\ pc = "flatten" /\ Top.kids = <<>> /\ Len(stack) > 1
  /\ LET res == marshal([Top.root EXCEPT !.Data = Top.accum]) IN
       /\ stack' = Deliver(Pop(stack), res)
       /\ calls' = Logged(Top.arg, res)
  /\ UNCHANGED <<data, pc, mref, out, err>>

\* Flatten returns buf.Bytes()
FlattenReturn ==
  /\ pc = "flatten" /\ Top.kids = <<>> /\ Len(stack) = 1
  /\ pc' = "done" /\ out' = Top.accum /\ stack' = <<>>
  /\ UNCHANGED <<data, mref, err, calls>>

Next ==
  \/ FlattenStart
  \/ FlattenXMLMultiRef
  \/ FlattenXMLLeaf
  \/ FlattenXMLDescend
  \/ FlattenXMLOverflow
  \/ FlattenXMLReturn
  \/ FlattenReturn

Init ==
  /\ data \in Inputs
  /\ pc = "start"
  /\ mref = EmptyMRef
  /\ stack = <<>>
  /\ out = <<>>
  /\ err = ""
  /\ calls = {}

Spec == Init /\ [][Next]_vars

(***************************************************************************)
(* Notions the properties below are stated with                            *)
(***************************************************************************)
Range(f) == {f[i] : i \in DOMAIN f}

Parsed == pc \in {"flatten", "done", "crashed"}

\* the steps compute what the recursive function computes
StepsAgree ==
  pc = "done" => out = flattenAll(elements(data).elem, mref)

\* the decoder and the lexemes agree on a buffer whose lexemes read back as
\* they were written
PlainAgrees(d) == Plain(d) => tokens(Render(d), 1) = PlainTokens(d)

LexemesAgree ==
  /\ PlainAgrees(data)
  /\ PlainAgrees(out)
  /\ \A c \in calls : PlainAgrees(c.el.Data) /\ PlainAgrees(c.res)

\* lexeme level: the end tag closing the start tag at i (0: none)
RECURSIVE MatchFrom(_, _, _)
MatchFrom(d, j, depth) ==
  IF j > Len(d) THEN 0
  ELSE IF d[j].k = "S" THEN MatchFrom(d, j + 1, depth + 1)
  ELSE IF d[j].k = "E"
       THEN IF depth = 0 THEN j ELSE MatchFrom(d, j + 1, depth - 1)
  ELSE MatchFrom(d, j + 1, depth)

\* every element written in a buffer, as its tag and the lexemes inside it
Written(d) ==
  {[tag |-> d[i],
    body |-> IF d[i].k = "X" \/ MatchFrom(d, i + 1, 0) = 0 THEN <<>>
             ELSE SubSeq(d, i + 1, MatchFrom(d, i + 1, 0) - 1)]
   : i \in {j \in 1..Len(d) : d[j].k \in {"S", "X"}}}

\* the href of a written tag, read from its text
WrittenHref(x) ==
  findHref([i \in 1..Len(x.attr) |->
              [Name |-> nsname(x.attr[i].name), Value |-> x.attr[i].val]])

\* a buffer with every empty tag written as a start and an end tag
RECURSIVE Canon(_)
Canon(d) ==
  IF d = <<>> THEN <<>>
  ELSE IF Head(d).k = "X"
       THEN <<STag(Head(d).name, Head(d).attr), ETag(Head(d).name)>> \o Canon(Tail(d))
       ELSE <<Head(d)>> \o Canon(Tail(d))

\* the flattened form of a content blob
FlatContent(d) ==
  LET ch == Children([NoElem EXCEPT !.Data = d]) IN
  IF Len(ch) > 0 THEN flattenAll(ch, mref) ELSE d

\* the start and end tags of a token stream pair up, by name, at every depth
RECURSIVE WellMatched(_, _)
WellMatched(p, open) ==
  IF p = <<>> THEN open = <<>>
  ELSE CASE Head(p).k = "S" -> WellMatched(Tail(p), <<Head(p).Name>> \o open)
         [] Head(p).k = "E" ->
              /\ open # <<>>
              /\ Head(open) = Head(p).Name
              /\ WellMatched(Tail(p), Tail(open))
         [] Head(p).k = "ERR" -> FALSE
         [] OTHER -> WellMatched(Tail(p), open)

\* the elements of the index pass in the order it records them
RECURSIVE PostOrder(_)
PostOrder(elems) ==
  IF elems = <<>> THEN <<>>
  ELSE PostOrder(Children(Head(elems))) \o <<Head(elems)>> \o PostOrder(Tail(elems))

Visited == PostOrder(elements(data).elem)

Declaring(v, id) ==
  {i \in 1..Len(v) : findId(v[i].Attr).ok /\ findId(v[i].Attr).val = id}

DeclaredIds(v) ==
  {findId(v[i].Attr).val : i \in {j \in 1..Len(v) : findId(v[j].Attr).ok}}

\* the declaration of id recorded last
Winner(v, id) ==
  v[CHOOSE i \in Declaring(v, id) : \A j \in Declaring(v, id) : j <= i]

Resolvable(el) ==
  /\ ~isMultiRef(el)
  /\ findHref(el.Attr).ok
  /\ findHref(el.Attr).val \in DOMAIN mref

\* an element with an href whose id is not in the index
Dangling(el) == findHref(el.Attr).ok /\ findHref(el.Attr).val \notin DOMAIN mref

Unresolvable(el) == ~isMultiRef(el) /\ Dangling(el)

\* the elements flattenXML(el) calls flattenXML on
Callees(el, m) ==
  IF isMultiRef(el) THEN {} ELSE Range(Children(hrefSubst(el, m)))

\* some chain of calls from el comes back to an element it went through
RECURSIVE Loops(_, _, _)
Loops(el, seen, m) ==
  \/ el \in seen
  \/ \E c \in Callees(el, m) : Loops(c, seen \cup {el}, m)

\* the substitution pass over document d with index m runs into a cycle
RunsIntoCycle(d, m) == \E el \in Range(elements(d).elem) : Loops(el, {}, m)

ReachesCycle == Parsed /\ RunsIntoCycle(data, mref)

\* flattening content d comes to an end
Ends(d) == \A c \in Range(Children([NoElem EXCEPT !.Data = d])) : ~Loops(c, {}, mref)

\* every element of a content blob, at any depth
RECURSIVE Descendants(_)
Descendants(d) ==
  LET ch == Children([NoElem EXCEPT !.Data = d]) IN
  Range(ch) \cup UNION {Descendants(c.Data) : c \in Range(ch)}

\* content d leads to a placeholder for id, by nesting and href-to-id links
RECURSIVE LeadsTo(_, _, _, _)
LeadsTo(d, id, seen, m) ==
  \E c \in Descendants(d) :
    /\ findHref(c.Attr).ok
    /\ \/ findHref(c.Attr).val = id
       \/ /\ findHref(c.Attr).val \in (DOMAIN m) \ seen
          /\ LeadsTo(m[findHref(c.Attr).val].Data, id,
                     seen \cup {findHref(c.Attr).val}, m)

\* the document holds an element declaring an id that its content leads to
HoldsCycle(m) ==
  \E el \in Range(Visited) :
    findId(el.Attr).ok /\ LeadsTo(el.Data, findId(el.Attr).val, {}, m)

\* the steps flattenXML(el) takes: one for a call that returns at once,
\* two (the descent and the return) and its callees' for the others
RECURSIVE Size(_, _)
RECURSIVE SumSize(_, _)
SumSize(elems, m) ==
  IF elems = <<>> THEN 0 ELSE Size(Head(elems), m) + SumSize(Tail(elems), m)

Size(el, m) ==
  IF isMultiRef(el) \/ Children(hrefSubst(el, m)) = <<>> THEN 1
  ELSE 2 + SumSize(Children(hrefSubst(el, m)), m)

\* a frame below the top is inside the call for its first child
RECURSIVE FramesWork(_, _, _)
FramesWork(st, i, m) ==
  IF i > Len(st) THEN 0
  ELSE 1 + SumSize(IF i = Len(st) THEN st[i].kids ELSE Tail(st[i].kids), m)
         + FramesWork(st, i + 1, m)

StackWork(st, m) == FramesWork(st, 1, m)

\* the steps Flatten still has to take
WorkOf(p, st, m) ==
  CASE p = "start" -> 1 + StackWork(<<Frame(NoElem, NoElem, elements(data).elem)>>, m)
    [] p = "flatten" -> StackWork(st, m)
    [] OTHER -> 0

\* what flattenXML returned for element el, given the content it ended with
Emitted(c, content) == c.res = marshal([c.el EXCEPT !.Data = content])

HrefOf(el) == findHref(el.Attr).val

(***************************************************************************)
(* C1.  Every element written in the output that carries href="#X", X in   *)
(* the index, has as content the flattened content of the element the      *)
(* index maps X to: no placeholder for an indexed id is left unresolved.   *)
(***************************************************************************)
C1_PlaceholdersResolved ==
  pc = "done" =>
    \A w \in Written(out) :
      LET h == WrittenHref(w.tag) IN
      (h.ok /\ h.val \in DOMAIN mref) =>
        /\ Ends(mref[h.val].Data)
        /\ Canon(w.body) = Canon(FlatContent(mref[h.val].Data))

(***************************************************************************)
(* C2.  When Flatten succeeds no tag named multiRef is written anywhere    *)
(* in the output, and the content of a referenced multiRef stands at every *)
(* placeholder that references it.                                         *)
(***************************************************************************)
C2_NoMultiRefInOutput ==
  pc = "done" =>
    /\ \A i \in 1..Len(out) :
         out[i].k \in {"S", "X", "E"} => nsname(out[i].name).Local # sMultiRef
    /\ \A w \in Written(out) :
         LET h == WrittenHref(w.tag) IN
         (h.ok /\ h.val \in DOMAIN mref /\ isMultiRef(mref[h.val])) =>
           /\ Ends(mref[h.val].Data)
           /\ Canon(w.body) = Canon(FlatContent(mref[h.val].Data))

(***************************************************************************)
(* C3.  As claimed: a placeholder whose id no element declares is emitted  *)
(* self-closing, with empty content, whatever content it had.              *)
(***************************************************************************)
C3_MissingIdEmitsEmpty ==
  \A c \in calls : Dangling(c.el) => c.res = TmplEmptyTag(c.el)

(***************************************************************************)
(* C3, amended.  An href whose id no element declares is not an error and  *)
(* makes no substitution.  When flattenXML is called on such an element    *)
(* and it is not named multiRef, it returns what the element template      *)
(* writes for the element with the content the element had in the input,   *)
(* flattened like any other content: the content is not emptied, and the   *)
(* tag is self-closing only when that content is empty.  An element named  *)
(* multiRef returns no bytes, dangling href or not.  A document whose tags *)
(* pair up and that has no syntax error does not make Flatten fail.        *)
(***************************************************************************)
C3_MissingIdKeepsOwnContent ==
  /\ \A c \in calls :
       Dangling(c.el) =>
         IF isMultiRef(c.el) THEN c.res = <<>>
         ELSE Emitted(c, FlatContent(c.el.Data))
  /\ WellMatched(RawTokens(data), <<>>) => pc # "failed"

C3_Witness ==
  /\ pc = "done"
  /\ \E c \in calls :
       /\ Unresolvable(c.el)
       /\ c.el.Data # <<>>
       /\ c.res # TmplEmptyTag(c.el)

(***************************************************************************)
(* C4.  An input whose start and end tags do not pair up (a mismatched end *)
(* tag, an end tag with no open start tag, an unclosed start tag) at any   *)
(* depth makes Flatten return an error and no buffer.                      *)
(***************************************************************************)
C4_MalformedRejected ==
  /\ pc = "done" => WellMatched(RawTokens(data), <<>>)
  /\ pc = "failed" => out = <<>>

(***************************************************************************)
(* C5.  A well-formed document without href, id or multiRef comes back as  *)
(* the same element tree: same names, attributes and text at every node,   *)
(* up to insignificant whitespace and the self-closing form.               *)
(***************************************************************************)
NoRefs(p) ==
  \A i \in 1..Len(p) :
    p[i].k = "S" =>
      /\ p[i].Name.Local # sMultiRef
      /\ \A j \in 1..Len(p[i].Attr) : p[i].Attr[j].Name.Local \notin {sHref, sId}

Blank(s) == \A i \in 1..Len(s) : s[i].lvl = 0 /\ s[i].c \in {" ", "\t", "\n", "\r"}

\* the token stream of an element tree: text outside every element, blank
\* text, comments, directives and processing instructions do not count
RECURSIVE TreeTokens(_, _)
TreeTokens(p, depth) ==
  IF p = <<>> THEN <<>>
  ELSE CASE Head(p).k = "S" -> <<Head(p)>> \o TreeTokens(Tail(p), depth + 1)
         [] Head(p).k = "E" ->
              <<Head(p)>> \o TreeTokens(Tail(p), IF depth > 0 THEN depth - 1 ELSE 0)
         [] Head(p).k = "T" ->
              IF depth = 0 \/ Blank(Head(p).Data)
              THEN TreeTokens(Tail(p), depth)
              ELSE <<Head(p)>> \o TreeTokens(Tail(p), depth)
         [] Head(p).k = "O" -> TreeTokens(Tail(p), depth)
         [] OTHER -> <<Head(p)>> \o TreeTokens(Tail(p), depth)

C5_NoReferenceRoundTrip ==
  (pc = "done" /\ NoRefs(RawTokens(data)) /\ WellMatched(RawTokens(data), <<>>)) =>
    TreeTokens(RawTokens(out), 0) = TreeTokens(RawTokens(data), 0)

(***************************************************************************)
(* C6.  The buffer Flatten returns is well-formed: the tree builder parses *)
(* it, and the content of every nested element, without error.             *)
(***************************************************************************)
RECURSIVE ParsesDeep(_)
ParsesDeep(d) ==
  /\ elements(d).err = ""
  /\ \A el \in Range(elements(d).elem) : ParsesDeep(el.Data)

C6_OutputWellFormed == pc = "done" => ParsesDeep(out)

(***************************************************************************)
(* C7.  As claimed: whenever the document holds an element declaring an id *)
(* whose content leads, directly or through further references, to a       *)
(* placeholder for that id, Flatten never returns.                         *)
(***************************************************************************)
C7_AnyCycleNeverReturns == (Parsed /\ HoldsCycle(mref)) => pc # "done"

(***************************************************************************)
(* C7, amended.  Whenever the substitution pass runs into a reference      *)
(* cycle (from a top-level element, following for every element not named  *)
(* multiRef the children of its content after the href substitution, some  *)
(* element comes back to itself), Flatten never returns: nothing bounds    *)
(* the depth and nothing remembers the elements gone through.  A cycle the *)
(* pass never enters (inside a dropped multiRef, behind a placeholder      *)
(* named multiRef, or at an id a later duplicate took over) is harmless.   *)
(***************************************************************************)
C7_ReachedCycleNeverReturns == ReachesCycle => pc # "done"

\* the recursion went round a cycle until the program died
C7_Witness ==
  /\ ReachesCycle
  /\ pc = "crashed"
  /\ \E i, j \in 2..Len(stack) : i < j /\ stack[i].arg = stack[j].arg

(***************************************************************************)
(* C8.  A well-formed document whose reference graph has no cycle is       *)
(* flattened in finitely many calls: Flatten returns.  Every step lowers   *)
(* the number of steps still to take, and the recursion never comes back   *)
(* to an element it is inside, so the program does not die of it.          *)
(***************************************************************************)
AcyclicDoc ==
  \E b \in {buildMRef(data)} : b.err = "" /\ ~HoldsCycle(b.mref)

C8_AcyclicTerminates ==
  /\ [](AcyclicDoc =>
         /\ pc # "crashed"
         /\ \A i \in 2..Len(stack) : Entered(stack, stack[i].arg) = 1)
  /\ [][AcyclicDoc =>
          \E b \in {buildMRef(data)}, p \in {pc'}, st \in {stack'} :
            WorkOf(p, st, b.mref) < WorkOf(pc, stack, b.mref)]_vars

C8_Witness ==
  /\ pc = "done"
  /\ ~HoldsCycle(mref)
  /\ \E c \in calls :
       /\ Resolvable(c.el)
       /\ \E g \in Callees(c.el, mref) : Resolvable(g)

(***************************************************************************)
(* C9.  An id declared more than once is indexed at the occurrence the     *)
(* index pass records last (document order, children before their         *)
(* parent), and every placeholder for it gets that occurrence's content.   *)
(***************************************************************************)
C9_LastDeclarationWins ==
  Parsed =>
    LET v == Visited IN
    /\ DOMAIN mref = DeclaredIds(v)
    /\ \A id \in DeclaredIds(v) : mref[id] = Winner(v, id)
    /\ \A c \in calls :
         Resolvable(c.el) => Emitted(c, FlatContent(Winner(v, HrefOf(c.el)).Data))

C9_Witness ==
  /\ pc = "done"
  /\ \E c \in calls :
       /\ Resolvable(c.el)
       /\ \E i \in Declaring(Visited, HrefOf(c.el)) :
            Visited[i].Data # Winner(Visited, HrefOf(c.el)).Data

(***************************************************************************)
(* C10.  Every element flattenXML emits carries the qualified name and the *)
(* attributes, values and order included, of the element it was made from. *)
(***************************************************************************)
C10_TagAndAttributesKept ==
  \A c \in calls :
    ~isMultiRef(c.el) =>
      LET r == elements(c.res) IN
      /\ r.err = ""
      /\ Len(r.elem) = 1
      /\ r.elem[1].Name = c.el.Name
      /\ r.elem[1].Attr = c.el.Attr

====
